---- MODULE Spec2Model ----
(***************************************************************************)
(* A model of packages/core/src/config.ts of rslib: the composition of a  *)
(* library build specification into per-environment Rsbuild               *)
(* configurations.                                                         *)
(*                                                                         *)
(* A configuration object is a function from field paths (tuples of keys, *)
(* <<"output", "filename", "js">>) to values; a field that is not set is   *)
(* not in the DOMAIN.  Strings that the code inspects character by        *)
(* character (dependency names, requests) are sequences of one-character   *)
(* strings.                                                                *)
(***************************************************************************)
EXTENDS Integers, Sequences, FiniteSets, TLC

VARIABLES
  options,       \* the arguments and environment of the call under study
  ret,           \* what the call returned or threw; [status |-> "pending"] before
  logs,          \* the lines given to logger.warn, in order
  resolved,      \* the engine's decisions on requests matched against externals
  pc,            \* per library unit, where its map callback stands
  work,          \* per library unit, the locals of its callback
  results,       \* per library unit, the promise of its callback
  finished,      \* the units in the order their promises settled
  initPc,        \* where initRsbuild stands
  environments,  \* the environments object initRsbuild builds
  rsbuild        \* what createRsbuild was given

pipeVars == <<pc, work, results, finished, initPc, environments, rsbuild>>
vars == <<options, ret, logs, resolved, pc, work, results, finished, initPc,
          environments, rsbuild>>

-----------------------------------------------------------------------------
(* Generic helpers *)

\* Array.prototype.includes
Includes(s, x) == \E i \in 1..Len(s) : s[i] = x

\* the sequences over S of length at most n
SeqsUpTo(S, n) == UNION {[1..k -> S] : k \in 0..n}

\* the sequences over S without a repeated element (the key lists of objects)
KeyLists(S) == {s \in SeqsUpTo(S, Cardinality(S)) :
                  \A i, j \in 1..Len(s) : i # j => s[i] # s[j]}

Range(s) == {s[i] : i \in 1..Len(s)}

EmptyConfig == <<>>

NoResolution == [decided |-> FALSE]

NotCreated == [created |-> FALSE]

Pending == [status |-> "pending"]
Returned(v) == [status |-> "returned", value |-> v]
Thrown(m) == [status |-> "thrown", message |-> m]

\* initRsbuild is not running: the study of one function on its own
PipelineIdle ==
  /\ pc = <<>>
  /\ work = <<>>
  /\ results = <<>>
  /\ finished = <<>>
  /\ initPc = "idle"
  /\ environments = <<>>
  /\ rsbuild = NotCreated

-----------------------------------------------------------------------------
(* Dependency names and requests *)

MaxNameLen == 3
MaxReqLen == 4

Letters == {"a", "b"}
NameChars == Letters \cup {"."}
ReqChars == NameChars \cup {"/", "\\"}

\* package names: they start with a letter and may hold dots (socket.io)
Names == {n \in SeqsUpTo(NameChars, MaxNameLen) : Len(n) >= 1 /\ n[1] \in Letters}
Requests == {r \in SeqsUpTo(ReqChars, MaxReqLen) : Len(r) >= 1}

\* the names the manifests of the model declare
DepPool == {<<"a">>, <<"a", ".", "b">>}

-----------------------------------------------------------------------------
(* composeAutoExternalConfig *)

DepTypes == {"dependencies", "peerDependencies", "devDependencies"}

NoPkgJson == [readable |-> FALSE]

\* const externalOptions = { dependencies: true, peerDependencies: true,
\*   devDependencies: false, ...(autoExternal === true ? {} : autoExternal) }
externalOptions(autoExternal) ==
  [t \in DepTypes |->
     IF autoExternal.kind = "object" /\ t \in DOMAIN autoExternal.sel
     THEN autoExternal.sel[t]
     ELSE t # "devDependencies"]

\* helper isObject: a plain object, neither a string nor an array
isObject(x) == x.shape = "object"

userExternalKeysNone(userExternals) == <<>>

\* userExternals && isObject(userExternals) ? Object.keys(userExternals) : []
userExternalKeys(userExternals) ==
  IF userExternals.shape # "undefined" /\ isObject(userExternals)
  THEN userExternals.keys
  ELSE <<>>

\* one step of the reduce over the three dependency types
groupKeys(pkgJson, opts, t) ==
  IF opts[t] /\ t \in DOMAIN pkgJson.groups THEN pkgJson.groups[t] ELSE <<>>

\* (['dependencies', 'peerDependencies', 'devDependencies']).reduce(...)
selectedNames(pkgJson, opts) ==
  groupKeys(pkgJson, opts, "dependencies")
    \o groupKeys(pkgJson, opts, "peerDependencies")
    \o groupKeys(pkgJson, opts, "devDependencies")

RECURSIVE uniqueFrom(_, _)
uniqueFrom(s, seen) ==
  IF s = <<>> THEN <<>>
  ELSE IF Includes(seen, Head(s)) THEN uniqueFrom(Tail(s), seen)
  ELSE <<Head(s)>> \o uniqueFrom(Tail(s), Append(seen, Head(s)))

uniqueExternalsKeepDuplicates(externals) == externals

\* Array.from(new Set(externals))
uniqueExternals(externals) == uniqueFrom(externals, <<>>)

\* an array value: externals and plugins keep their shape beside their content
ArrayOf(items) == [shape |-> "array", items |-> items]

\* new RegExp(`^${dep}($|\\/|\\\\)`): the name is pasted into the pattern as is
prefixRule(dep) == [kind |-> "regexp", source |-> dep]
exactRule(dep) == [kind |-> "string", name |-> dep]

mapSeq(s, Op(_)) == [i \in 1..Len(s) |-> Op(s[i])]

\* [...uniqueExternals.map((dep) => new RegExp(...)), ...uniqueExternals]
autoExternalRules(externals) ==
  mapSeq(uniqueExternals(externals), prefixRule)
    \o mapSeq(uniqueExternals(externals), exactRule)

composeAutoExternalConfig(o) ==
  IF o.autoExternal.kind = "boolean" /\ ~o.autoExternal.value THEN EmptyConfig
  ELSE IF ~o.pkgJson.readable THEN EmptyConfig
  ELSE LET keys == userExternalKeys(o.userExternals)
           externals == SelectSeq(
             selectedNames(o.pkgJson, externalOptions(o.autoExternal)),
             LAMBDA name : ~Includes(keys, name))
       IN IF Len(externals) # 0
          THEN [p \in {<<"output", "externals">>} |-> ArrayOf(autoExternalRules(externals))]
          ELSE EmptyConfig

AutoExternalWarning ==
  "autoExternal configuration will not be applied due to read package.json failed"

\* the logger.warn of the call, if any
composeAutoExternalWarns(o) ==
  IF o.autoExternal.kind = "boolean" /\ ~o.autoExternal.value THEN <<>>
  ELSE IF ~o.pkgJson.readable THEN <<AutoExternalWarning>>
  ELSE <<>>

\* The inputs of the model
AutoExternalValues ==
  {[kind |-> "boolean", value |-> b] : b \in BOOLEAN}
    \cup {[kind |-> "object", sel |-> s] :
            s \in UNION {[D -> BOOLEAN] : D \in SUBSET DepTypes}}

GroupMaps(pool) == UNION {[D -> KeyLists(pool)] : D \in SUBSET DepTypes}

PkgJsons(pool) ==
  {NoPkgJson}
    \cup {[readable |-> TRUE, type |-> ty, groups |-> g] :
            ty \in {"module"}, g \in GroupMaps(pool)}

UserExternalsValues(pool) ==
  {[shape |-> "undefined"]}
    \cup {[shape |-> "object", keys |-> k] : k \in KeyLists(pool)}
    \cup {[shape |-> "string", name |-> n] : n \in pool}
    \cup {[shape |-> "array", items |-> <<exactRule(n)>>] : n \in pool}

AutoExternalOptions ==
  [autoExternal : AutoExternalValues,
   pkgJson : PkgJsons(DepPool),
   userExternals : UserExternalsValues(DepPool)]

InitAutoExternal ==
  /\ options \in AutoExternalOptions
  /\ ret = Pending
  /\ logs = <<>>
  /\ resolved = NoResolution
  /\ PipelineIdle

CallComposeAutoExternalConfig ==
  /\ ret = Pending
  /\ "autoExternal" \in DOMAIN options
  /\ ret' = Returned(composeAutoExternalConfig(options))
  /\ logs' = logs \o composeAutoExternalWarns(options)
  /\ UNCHANGED <<options, resolved>>
  /\ UNCHANGED pipeVars

NextAutoExternal == CallComposeAutoExternalConfig

SpecAutoExternal == InitAutoExternal /\ [][NextAutoExternal]_vars

-----------------------------------------------------------------------------
(* The rules of a returned fragment, and what the user lists *)

Externals == <<"output", "externals">>

returnedRules ==
  IF ret.status = "returned" /\ Externals \in DOMAIN ret.value
  THEN ret.value[Externals].items
  ELSE <<>>

CountRule(rule) == Cardinality({i \in 1..Len(returnedRules) : returnedRules[i] = rule})

\* the user's externals configuration names n, whatever its shape
UserLists(userExternals, n) ==
  CASE userExternals.shape = "object" -> Includes(userExternals.keys, n)
    [] userExternals.shape = "string" -> userExternals.name = n
    [] userExternals.shape = "array" -> Includes(userExternals.items, exactRule(n))
    [] OTHER -> FALSE

AutoExternalEnabled ==
  /\ ~(options.autoExternal.kind = "boolean" /\ ~options.autoExternal.value)
  /\ options.pkgJson.readable

\* the dependency types the options select, and the names declared under them
SelectedTypes == {t \in DepTypes : externalOptions(options.autoExternal)[t]}
NamesOf(T) ==
  UNION {Range(options.pkgJson.groups[t]) : t \in T \cap DOMAIN options.pkgJson.groups}

\* C4 as stated: a name the user lists, in any shape of externals, gets no rule.
C4_AnyShapeSkipped ==
  ret.status = "returned" =>
    \A n \in DepPool :
      UserLists(options.userExternals, n) =>
        CountRule(exactRule(n)) = 0 /\ CountRule(prefixRule(n)) = 0

\* C4 amended: a name that is a key of the user's externals OBJECT gets neither
\* the exact-name rule nor the prefix-pattern rule; a string or an array of
\* entries is not inspected.
C4_ObjectKeysSkipped ==
  (ret.status = "returned" /\ options.userExternals.shape = "object") =>
    \A n \in Range(options.userExternals.keys) :
      CountRule(exactRule(n)) = 0 /\ CountRule(prefixRule(n)) = 0

C4_Witness ==
  /\ ret.status = "returned"
  /\ AutoExternalEnabled
  /\ options.userExternals.shape = "object"
  /\ \E n \in Range(options.userExternals.keys) :
       /\ n \in NamesOf(SelectedTypes)
       /\ CountRule(exactRule(n)) = 0
  /\ Len(returnedRules) > 0

\* C5 as stated: each name of a selected group the user does not list gets
\* exactly one exact rule and one prefix rule, no name of an unselected group
\* appears, and a disabled or manifest-less call returns the empty fragment.
C5_SelectedGroupsExactlyOnce ==
  ret.status # "pending" =>
    /\ ret.status = "returned"
    /\ AutoExternalEnabled =>
         /\ \A n \in NamesOf(SelectedTypes) :
              ~UserLists(options.userExternals, n) =>
                CountRule(exactRule(n)) = 1 /\ CountRule(prefixRule(n)) = 1
         /\ \A n \in NamesOf(DepTypes \ SelectedTypes) :
              CountRule(exactRule(n)) = 0 /\ CountRule(prefixRule(n)) = 0
    /\ ~AutoExternalEnabled => ret.value = EmptyConfig

\* C5 amended: as stated, except that only a name declared in NO selected group
\* is kept out: a name of an unselected group that a selected group also
\* declares is externalized.
C5_SelectedGroupsExactlyOnceAmended ==
  ret.status # "pending" =>
    /\ ret.status = "returned"
    /\ AutoExternalEnabled =>
         /\ \A n \in NamesOf(SelectedTypes) :
              ~UserLists(options.userExternals, n) =>
                CountRule(exactRule(n)) = 1 /\ CountRule(prefixRule(n)) = 1
         /\ \A n \in DepPool \ NamesOf(SelectedTypes) :
              CountRule(exactRule(n)) = 0 /\ CountRule(prefixRule(n)) = 0
    /\ ~AutoExternalEnabled => ret.value = EmptyConfig

C5_Witness ==
  /\ ret.status = "returned"
  /\ AutoExternalEnabled
  /\ options.autoExternal.kind = "object"
  /\ Cardinality(SelectedTypes) >= 2
  /\ \E n \in DepPool :
       /\ \A t \in SelectedTypes :
            t \in DOMAIN options.pkgJson.groups /\ Includes(options.pkgJson.groups[t], n)
       /\ CountRule(exactRule(n)) = 1 /\ CountRule(prefixRule(n)) = 1
  /\ \E n \in NamesOf(DepTypes \ SelectedTypes) : CountRule(exactRule(n)) = 0

-----------------------------------------------------------------------------
(* The engine matching a request against the generated rules *)

\* one pattern character against one request character: "." is the regular
\* expression's wildcard, every other character of NameChars stands for itself
atomMatches(c, ch) == c = "." \/ c = ch

\* RegExp(`^${source}($|\/|\\)`).test(request)
RegExpTest(source, request) ==
  /\ Len(request) >= Len(source)
  /\ \A i \in 1..Len(source) : atomMatches(source[i], request[i])
  /\ \/ Len(request) = Len(source)
     \/ request[Len(source) + 1] \in {"/", "\\"}

\* the request is the literal name followed by end-of-string, "/" or "\"
LiteralBoundary(name, request) ==
  /\ Len(request) >= Len(name)
  /\ SubSeq(request, 1, Len(name)) = name
  /\ \/ Len(request) = Len(name)
     \/ request[Len(name) + 1] \in {"/", "\\"}

ruleMatches(rule, request) ==
  IF rule.kind = "regexp" THEN RegExpTest(rule.source, request)
  ELSE rule.name = request

\* a manifest with the single dependency dep, auto-external on
SingleDepOptions(dep) ==
  [autoExternal |-> [kind |-> "boolean", value |-> TRUE],
   pkgJson |-> [readable |-> TRUE, type |-> "module",
                groups |-> [t \in {"dependencies"} |-> <<dep>>]],
   userExternals |-> [shape |-> "undefined"]]

InitMatch ==
  /\ options \in {SingleDepOptions(dep) : dep \in Names}
  /\ ret = Pending
  /\ logs = <<>>
  /\ resolved = NoResolution
  /\ PipelineIdle

\* the engine tests a request of the build against each rule of the fragment
ResolveRequest ==
  /\ ret.status = "returned"
  /\ \E request \in Requests :
       resolved' = [decided |-> TRUE,
                    request |-> request,
                    matched |-> {i \in 1..Len(returnedRules) :
                                   ruleMatches(returnedRules[i], request)}]
  /\ UNCHANGED <<options, ret, logs>>
  /\ UNCHANGED pipeVars

NextMatch == CallComposeAutoExternalConfig \/ ResolveRequest

SpecMatch == InitMatch /\ [][NextMatch]_vars

TheDep == options.pkgJson.groups["dependencies"][1]

\* C6: the generated prefix pattern matches a request exactly when the request
\* is the literal dependency name followed by end-of-string, "/" or "\".
C6_PrefixPatternIsLiteral ==
  resolved.decided =>
    \A i \in 1..Len(returnedRules) :
      returnedRules[i].kind = "regexp" =>
        (i \in resolved.matched <=> LiteralBoundary(TheDep, resolved.request))

-----------------------------------------------------------------------------
(* Paths, globs and composeEntryConfig *)
(* A path is the sequence of its segments; the project root is <<>> and    *)
(* every file is given relative to it, as glob does with cwd: root.        *)

\* path.parse(...).name: the last segment without its extension
stripExt(segment) ==
  CASE segment = "x.ts" -> "x"
    [] segment = "y.ts" -> "y"
    [] segment = "z.ts" -> "z"
    [] OTHER -> segment

\* the files a project may hold, in the order a directory walk lists them
FileUniverse ==
  << <<"lib", "x.ts">>, <<"src", "a", "x.ts">>, <<"src", "b", "y.ts">>,
     <<"src", "z.ts">> >>

RECURSIVE globMatch(_, _)
\* one glob pattern against one path: "*.ts" is any file name, "**" any
\* number of directories, every other segment stands for itself
globMatch(pattern, path) ==
  IF pattern = <<>> THEN path = <<>>
  ELSE IF Head(pattern) = "**"
       THEN \/ globMatch(Tail(pattern), path)
            \/ path # <<>> /\ Len(path) > 1 /\ globMatch(pattern, Tail(path))
  ELSE /\ path # <<>>
       /\ \/ Head(pattern) = Head(path)
          \/ Head(pattern) = "*.ts" /\ Len(path) = 1
       /\ globMatch(Tail(pattern), Tail(path))

\* glob(entryFiles, { cwd: root }) on the file system fs
glob(entryFiles, fs) ==
  SelectSeq(FileUniverse,
            LAMBDA f : f \in fs /\ \E i \in 1..Len(entryFiles) : globMatch(entryFiles[i], f))

RECURSIVE commonPrefix(_, _)
commonPrefix(p, q) ==
  IF p = <<>> \/ q = <<>> \/ Head(p) # Head(q) THEN <<>>
  ELSE <<Head(p)>> \o commonPrefix(Tail(p), Tail(q))

RECURSIVE commonPrefixAll(_)
commonPrefixAll(paths) ==
  IF Len(paths) = 1 THEN paths[1]
  ELSE commonPrefix(paths[1], commonPrefixAll(Tail(paths)))

NullPath == [null |-> TRUE]

\* helper calcLongestCommonPath: the directory of the longest common prefix of
\* the segments; the parent when the prefix is a file; null with no common
\* ancestor below the root
calcLongestCommonPath(paths) ==
  LET prefix == commonPrefixAll(paths)
      dir == IF Includes(paths, prefix) THEN SubSeq(prefix, 1, Len(prefix) - 1)
             ELSE prefix
  IN IF dir = <<>> THEN NullPath ELSE [null |-> FALSE, path |-> dir]

\* path.relative(outBase, file), outBase an ancestor directory of file
relative(outBase, file) == SubSeq(file, Len(outBase) + 1, Len(file))

\* path.join(dir, name) of path.parse(path.relative(outBase, file))
entryFileName(outBase, file) ==
  LET rel == relative(outBase, file)
  IN SubSeq(rel, 1, Len(rel) - 1) \o <<stripExt(rel[Len(rel)])>>

\* obj[key] = value on an object kept as the list of its [key, value] pairs
ObjSet(obj, key, value) ==
  IF \E i \in 1..Len(obj) : obj[i].key = key
  THEN [i \in 1..Len(obj) |-> IF obj[i].key = key THEN [key |-> key, value |-> value]
                              ELSE obj[i]]
  ELSE Append(obj, [key |-> key, value |-> value])


fileEntry(file) == [shape |-> "string", patterns |-> <<file>>]

RECURSIVE addFiles(_, _, _)
\* for (const file of resolvedEntryFiles) resolvedEntries[entryFileName] = file
addFiles(resolvedEntries, files, outBase) ==
  IF files = <<>> THEN resolvedEntries
  ELSE addFiles(ObjSet(resolvedEntries, entryFileName(outBase, Head(files)),
                       fileEntry(Head(files))),
                Tail(files), outBase)

EntryShapeError == [text |-> "Entry can only be a string or an array of strings for now",
                    interpolated |-> <<>>]

\* `Cannot find ${resolvedEntryFiles}`: the array that was just found empty
cannotFind(resolvedEntryFiles) ==
  [text |-> "Cannot find ", interpolated |-> resolvedEntryFiles]

\* const outBase = lcp === null ? root : lcp, per entry key
outBaseOf(resolvedEntryFiles, root) ==
  LET lcp == calcLongestCommonPath(resolvedEntryFiles)
  IN IF lcp.null THEN root ELSE lcp.path

RECURSIVE resolveEntries(_, _, _, _, _)
\* the loop over Object.keys(entries), from the i-th key on
resolveEntries(entries, i, fs, root, resolvedEntries) ==
  IF i > Len(entries) THEN Returned([p \in {<<"source", "entry">>} |-> resolvedEntries])
  ELSE LET entry == entries[i].value
       IN IF entry.shape \notin {"string", "array"} THEN Thrown(EntryShapeError)
          ELSE LET resolvedEntryFiles == glob(entry.patterns, fs)
               IN IF Len(resolvedEntryFiles) = 0
                  THEN Thrown(cannotFind(resolvedEntryFiles))
                  ELSE resolveEntries(entries, i + 1, fs, root,
                         addFiles(resolvedEntries, resolvedEntryFiles,
                                  outBaseOf(resolvedEntryFiles, root)))

composeEntryConfig(entries, bundle, fs, root) ==
  IF ~entries.defined THEN Returned(EmptyConfig)
  ELSE IF bundle # "false"
       THEN Returned([p \in {<<"source", "entry">>} |-> entries.obj])
  ELSE resolveEntries(entries.obj, 1, fs, root, <<>>)

Root == <<>>

\* The inputs of the model
GlobPool ==
  { <<"src", "a", "*.ts">>, <<"src", "b", "*.ts">>, <<"src", "**", "*.ts">>,
    <<"**", "*.ts">> }

EntryValues ==
  {[shape |-> "string", patterns |-> <<g>>] : g \in GlobPool}
    \cup {[shape |-> "array", patterns |-> <<g, h>>] :
            g \in {<<"src", "a", "*.ts">>}, h \in {<<"src", "b", "*.ts">>}}
    \cup {[shape |-> "object", patterns |-> <<>>]}

EntryKeys == {<<"index">>, <<"other">>}

EntryObjects ==
  {obj \in SeqsUpTo([key : EntryKeys, value : EntryValues], Cardinality(EntryKeys)) :
     \A i, j \in 1..Len(obj) : i # j => obj[i].key # obj[j].key}

EntriesValues == {[defined |-> FALSE]} \cup {[defined |-> TRUE, obj |-> o] : o \in EntryObjects}

BundleValues == {"undefined", "true", "false"}

InitEntry ==
  /\ options \in [entries : EntriesValues, bundle : BundleValues,
                  fs : SUBSET Range(FileUniverse)]
  /\ ret = Pending
  /\ logs = <<>>
  /\ resolved = NoResolution
  /\ PipelineIdle

CallComposeEntryConfig ==
  /\ ret = Pending
  /\ "entries" \in DOMAIN options
  /\ ret' = composeEntryConfig(options.entries, options.bundle, options.fs, Root)
  /\ UNCHANGED <<options, logs, resolved>>
  /\ UNCHANGED pipeVars

NextEntry == CallComposeEntryConfig

SpecEntry == InitEntry /\ [][NextEntry]_vars

\* the i-th key has a supported shape and its patterns match at least one file
KeyResolves(i) ==
  /\ options.entries.obj[i].value.shape \in {"string", "array"}
  /\ Len(glob(options.entries.obj[i].value.patterns, options.fs)) > 0

\* the i-th key is the first the loop cannot resolve, and it matches no file
FirstUnmatchedKey(i) ==
  /\ \A j \in 1..(i - 1) : KeyResolves(j)
  /\ options.entries.obj[i].value.shape \in {"string", "array"}
  /\ Len(glob(options.entries.obj[i].value.patterns, options.fs)) = 0

\* C8: in bundleless mode an entry key whose globs match no file makes
\* composeEntryConfig throw an error whose message names that key; with bundle
\* not false the entries pass through unchanged and nothing fails.
C8_UnmatchedKeyNamed ==
  (ret.status # "pending" /\ options.entries.defined) =>
    /\ options.bundle = "false" =>
         \A i \in 1..Len(options.entries.obj) :
           FirstUnmatchedKey(i) =>
             /\ ret.status = "thrown"
             /\ options.entries.obj[i].key \in Range(ret.message.interpolated)
    /\ options.bundle # "false" =>
         ret = Returned([p \in {<<"source", "entry">>} |-> options.entries.obj])

\* every file some entry key matches
AllMatched ==
  SelectSeq(FileUniverse,
    LAMBDA f : f \in options.fs /\
      \E k \in 1..Len(options.entries.obj) :
        \E j \in 1..Len(options.entries.obj[k].value.patterns) :
          globMatch(options.entries.obj[k].value.patterns[j], f))

UnionBase ==
  LET lcp == calcLongestCommonPath(AllMatched)
  IN IF lcp.null THEN Root ELSE lcp.path

\* C9: in bundleless mode every matched file is named relative to ONE base,
\* the longest common ancestor of the files of all entry keys together (or the
\* root when there is none), with the extension stripped.
C9_OneOutBaseForUnit ==
  (ret.status = "returned" /\ options.entries.defined /\ options.bundle = "false") =>
    Range(ret.value[<<"source", "entry">>]) =
      {[key |-> entryFileName(UnionBase, f), value |-> fileEntry(f)] :
         f \in Range(AllMatched)}

-----------------------------------------------------------------------------
(* Configuration objects and mergeRsbuildConfig *)

Has(config, path) == path \in DOMAIN config
Get(config, path, default) == IF path \in DOMAIN config THEN config[path] ELSE default

Field(path, value) == [p \in {path} |-> value]

Entry == <<"source", "entry">>
Plugins == <<"plugins">>

\* an externals value as an array of rules: a lone string or object is one rule
castArray(v) ==
  CASE v.shape = "array" -> v.items
    [] v.shape = "string" -> <<[kind |-> "string", name |-> v.name]>>
    [] v.shape = "object" -> <<[kind |-> "object", keys |-> v.keys]>>
    [] OTHER -> <<>>

RECURSIVE mergeObjects(_, _)
\* the keys of y written over those of x
mergeObjects(x, y) ==
  IF y = <<>> THEN x
  ELSE mergeObjects(ObjSet(x, y[1].key, y[1].value), Tail(y))

\* the merge of two values set at the same path: arrays are concatenated,
\* objects are merged key by key, anything else is replaced by the later value
mergeValue(path, x, y) ==
  IF path = Entry THEN mergeObjects(x, y)
  ELSE IF path \in {Externals, Plugins}
       THEN IF x.shape = "array" \/ y.shape = "array"
            THEN ArrayOf(castArray(x) \o castArray(y))
            ELSE IF x.shape = "object" /\ y.shape = "object"
            THEN [shape |-> "object", keys |-> uniqueFrom(x.keys \o y.keys, <<>>)]
            ELSE y
  ELSE y

\* mergeRsbuildConfig(x, y): deep merge, the later configuration wins
merge(x, y) ==
  [path \in DOMAIN x \cup DOMAIN y |->
     IF path \notin DOMAIN y THEN x[path]
     ELSE IF path \notin DOMAIN x THEN y[path]
     ELSE mergeValue(path, x[path], y[path])]

RECURSIVE mergeRsbuildConfig(_)
\* mergeRsbuildConfig(...configs), given the list of its arguments
mergeRsbuildConfig(configs) ==
  IF configs = <<>> THEN EmptyConfig
  ELSE merge(mergeRsbuildConfig(SubSeq(configs, 1, Len(configs) - 1)),
             configs[Len(configs)])

\* the options of a library unit that are not Rsbuild options
OmittedKeys == {"bundle", "format", "autoExtension", "autoExternal", "syntax", "dts"}

\* helper omitDeep: the object without the given keys, at every depth
omitDeep(config, keys) ==
  [path \in {q \in DOMAIN config : \A i \in 1..Len(q) : q[i] \notin keys} |->
     config[path]]

-----------------------------------------------------------------------------
(* createInternalRsbuildConfig and the fragments of one library unit *)

createInternalRsbuildConfig ==
  (<<"mode">> :> "production")
    @@ (<<"dev", "progressBar">> :> "false")
    @@ (<<"tools", "htmlPlugin">> :> "false")
    @@ (<<"tools", "rspack", "optimization", "moduleIds">> :> "named")
    @@ (<<"tools", "rspack", "experiments", "rspackFuture", "bundlerInfo", "force">> :> "false")
    @@ (<<"tools", "rspack", "resolve", "extensionAlias", ".js">> :> ".ts,.tsx,.js,.jsx")
    @@ (<<"tools", "rspack", "resolve", "extensionAlias", ".jsx">> :> ".tsx,.jsx")
    @@ (<<"tools", "rspack", "resolve", "extensionAlias", ".mjs">> :> ".mts,.mjs")
    @@ (<<"tools", "rspack", "resolve", "extensionAlias", ".cjs">> :> ".cts,.cjs")
    @@ (<<"output", "filenameHash">> :> "false")
    @@ (<<"output", "minify", "js">> :> "true")
    @@ (<<"output", "minify", "css">> :> "false")
    @@ (<<"output", "minify", "jsOptions", "minimizerOptions", "mangle">> :> "false")
    @@ (<<"output", "minify", "jsOptions", "minimizerOptions", "minify">> :> "false")
    @@ (<<"output", "minify", "jsOptions", "minimizerOptions", "compress", "defaults">> :> "false")
    @@ (<<"output", "minify", "jsOptions", "minimizerOptions", "compress", "unused">> :> "true")
    @@ (<<"output", "minify", "jsOptions", "minimizerOptions", "compress", "dead_code">> :> "true")
    @@ (<<"output", "minify", "jsOptions", "minimizerOptions", "compress", "toplevel">> :> "true")
    @@ (<<"output", "minify", "jsOptions", "minimizerOptions", "format", "comments">> :> "all")
    @@ (<<"output", "distPath", "js">> :> "./")

unsupported(what, value) == [text |-> what, interpolated |-> <<<<value>>>>]

composeFormatConfig(format) ==
  CASE format = "esm" ->
         Returned((<<"tools", "rspack", "output", "module">> :> "true")
           @@ (<<"tools", "rspack", "output", "chunkFormat">> :> "module")
           @@ (<<"tools", "rspack", "output", "library", "type">> :> "modern-module")
           @@ (<<"tools", "rspack", "module", "parser", "javascript", "importMeta">> :> "false")
           @@ (<<"tools", "rspack", "optimization", "concatenateModules">> :> "true")
           @@ (<<"tools", "rspack", "experiments", "outputModule">> :> "true"))
    [] format = "cjs" ->
         Returned((<<"tools", "rspack", "output", "iife">> :> "false")
           @@ (<<"tools", "rspack", "output", "chunkFormat">> :> "commonjs")
           @@ (<<"tools", "rspack", "output", "library", "type">> :> "commonjs"))
    [] format = "umd" ->
         Returned(<<"tools", "rspack", "output", "library", "type">> :> "umd")
    [] OTHER -> Thrown(unsupported("Unsupported format: ", format))

\* the interception step of the ESM externals
ModuleImportWarnFn == [kind |-> "function", fn |-> "moduleImportWarn"]

ExternalsType == <<"tools", "rspack", "externalsType">>

composeExternalsConfig(format, externals) ==
  CASE format = "esm" ->
         \* [fn, ...userExternals].filter(Boolean)
         Returned(Field(Externals, ArrayOf(<<ModuleImportWarnFn>> \o castArray(externals)))
                    @@ Field(ExternalsType, "module-import"))
    [] format = "cjs" ->
         Returned((IF externals.shape # "undefined" THEN Field(Externals, externals)
                   ELSE EmptyConfig)
                    @@ Field(ExternalsType, "commonjs"))
    [] format = "umd" ->
         Returned((IF externals.shape # "undefined" THEN Field(Externals, externals)
                   ELSE EmptyConfig)
                    @@ Field(ExternalsType, "umd"))
    [] OTHER -> Thrown(unsupported("Unsupported format: ", format))

\* helper getDefaultExtension: the extension table of the output files
pkgType(pkgJson) == IF pkgJson.readable THEN pkgJson.type ELSE "absent"

jsExtensionOf(format, pkgJson, autoExtension) ==
  IF ~autoExtension THEN ".js"
  ELSE IF format = "esm" /\ pkgType(pkgJson) = "commonjs" THEN ".mjs"
  ELSE IF format = "cjs" /\ pkgType(pkgJson) = "module" THEN ".cjs"
  ELSE ".js"

dtsExtensionOf(format, pkgJson, autoExtension) ==
  IF ~autoExtension THEN ".d.ts"
  ELSE IF format = "esm" /\ pkgType(pkgJson) = "commonjs" THEN ".d.mts"
  ELSE IF format = "cjs" /\ pkgType(pkgJson) = "module" THEN ".d.cts"
  ELSE ".d.ts"

FilenameJs == <<"output", "filename", "js">>

\* the fields of config below the object at prefix
Under(config, prefix) ==
  [path \in {q \in DOMAIN config :
               Len(q) > Len(prefix) /\ SubSeq(q, 1, Len(prefix)) = prefix} |->
     config[path]]

autoExtensionFilenameFixed(config, jsExtension) ==
  Field(FilenameJs, <<"[name]", ".js">>)

\* filename: { js: `[name]${jsExtension}`, ...config.output?.filename }
autoExtensionFilename(config, jsExtension) ==
  merge(Field(FilenameJs, <<"[name]", jsExtension>>),
        Under(config, <<"output", "filename">>))

composeAutoExtensionConfig(config, autoExtension, pkgJson) ==
  LET format == Get(config, <<"format">>, "undefined")
      jsExtension == jsExtensionOf(format, pkgJson, autoExtension)
  IN [config |-> autoExtensionFilename(config, jsExtension),
      jsExtension |-> jsExtension,
      dtsExtension |-> dtsExtensionOf(format, pkgJson, autoExtension)]

RspackTargetFn == <<"tools", "rspack", "(config) => config.target">>
RspackTarget == <<"tools", "rspack", "target">>
OverrideBrowserslist == <<"output", "overrideBrowserslist">>

LastNodeVersions == <<"last 1 node versions">>
LastWebVersions ==
  <<"last 1 Chrome versions", "last 1 Firefox versions", "last 1 Edge versions",
    "last 1 Safari versions", "last 1 ios_saf versions", "not dead">>

\* the function form of tools.rspack is chained by the merge, not replaced: it
\* is kept as a field of its own beside the object form of tools.rspack
composeSyntaxConfig(syntax, target) ==
  IF syntax # "undefined"
  THEN Field(RspackTargetFn, "es5")
         @@ Field(OverrideBrowserslist, <<"transformSyntaxToBrowserslist", syntax>>)
  ELSE Field(RspackTargetFn, "es2022")
         @@ Field(OverrideBrowserslist,
                  IF target = "web" THEN LastWebVersions
                  ELSE IF target = "node" THEN LastNodeVersions
                  ELSE LastNodeVersions \o LastWebVersions)

\* the externals callback of the bundleless mode
BundlelessFn(jsExtension) ==
  [kind |-> "function", fn |-> "bundleless", jsExtension |-> jsExtension]

\* bundle = true is the default of the parameter
composeBundleConfig(jsExtension, bundle) ==
  IF bundle # "false" THEN EmptyConfig
  ELSE Field(Externals, ArrayOf(<<BundlelessFn(jsExtension)>>))

NodeBuiltInModules == [kind |-> "nodeBuiltInModules"]

\* target = 'web' is the default of the parameter
composeTargetConfig(target) ==
  CASE target \in {"web", "undefined"} -> Returned(Field(RspackTarget, "web"))
    [] target = "node" ->
         Returned(Field(RspackTarget, "node")
                    @@ Field(Externals, ArrayOf(<<NodeBuiltInModules>>))
                    @@ Field(<<"output", "target">>, "node"))
    [] target = "neutral" -> Returned(Field(RspackTarget, "web,node"))
    [] OTHER -> Thrown(unsupported("Unsupported platform: ", target))

Nullish(a, b) == IF a # "undefined" THEN a ELSE b

NoDts == [enabled |-> FALSE]

\* the plugin follows the dynamic import of rsbuild-plugin-dts
composeDtsConfig(libConfig, dtsExtension) ==
  LET dts == Get(libConfig, <<"dts">>, NoDts)
  IN IF ~dts.enabled THEN EmptyConfig
     ELSE Field(Plugins, ArrayOf(<<
            [kind |-> "pluginDts",
             bundle |-> Nullish(dts.bundle, Get(libConfig, <<"bundle">>, "undefined")),
             distPath |-> Nullish(dts.distPath,
                            Nullish(Get(libConfig, <<"output", "distPath", "root">>, "undefined"),
                                    "./dist")),
             abortOnError |-> Nullish(dts.abortOnError, "true"),
             dtsExtension |-> dtsExtension,
             autoExternal |-> Get(libConfig, <<"autoExternal">>, [kind |-> "undefined"])]>>))

Undefined == [shape |-> "undefined"]
DefaultAutoExternal == [kind |-> "boolean", value |-> TRUE]

\* source.entry of a configuration, as composeEntryConfig receives it
entriesOf(config) ==
  IF Has(config, Entry) THEN [defined |-> TRUE, obj |-> config[Entry]]
  ELSE [defined |-> FALSE]

\* composeLibRsbuildConfig up to its first await: the fragments computed
\* synchronously, or the first exception among them
syncFragments(config, pkgJson) ==
  LET format == Get(config, <<"format">>, "undefined")
      autoExtension == Get(config, <<"autoExtension">>, "true") # "false"
      formatConfig == composeFormatConfig(format)
      externalsConfig == composeExternalsConfig(format, Get(config, Externals, Undefined))
      ext == composeAutoExtensionConfig(config, autoExtension, pkgJson)
      targetConfig == composeTargetConfig(Get(config, <<"output", "target">>, "undefined"))
  IN IF formatConfig.status = "thrown" THEN formatConfig
     ELSE IF externalsConfig.status = "thrown" THEN externalsConfig
     ELSE IF targetConfig.status = "thrown" THEN targetConfig
     ELSE Returned(
       [formatConfig |-> formatConfig.value,
        externalsConfig |-> externalsConfig.value,
        autoExtensionConfig |-> ext.config,
        dtsExtension |-> ext.dtsExtension,
        bundleConfig |-> composeBundleConfig(ext.jsExtension,
                                             Get(config, <<"bundle">>, "undefined")),
        targetConfig |-> targetConfig.value,
        syntaxConfig |-> composeSyntaxConfig(Get(config, <<"output", "syntax">>, "undefined"),
                                             Get(config, <<"output", "target">>, "undefined")),
        autoExternalConfig |-> composeAutoExternalConfig(
          [autoExternal |-> Get(config, <<"autoExternal">>, DefaultAutoExternal),
           pkgJson |-> pkgJson,
           userExternals |-> Get(config, Externals, Undefined)])])

\* the warnings of the fragments computed synchronously
syncWarns(config, pkgJson) ==
  IF syncFragments(config, pkgJson).status = "thrown" THEN <<>>
  ELSE composeAutoExternalWarns(
         [autoExternal |-> Get(config, <<"autoExternal">>, DefaultAutoExternal),
          pkgJson |-> pkgJson,
          userExternals |-> Get(config, Externals, Undefined)])

\* return mergeRsbuildConfig(formatConfig, ..., entryConfig, dtsConfig)
mergeFragments(f, entryConfig, dtsConfig) ==
  mergeRsbuildConfig(<<f.formatConfig, f.externalsConfig, f.autoExtensionConfig,
                       f.autoExternalConfig, f.syntaxConfig, f.bundleConfig,
                       f.targetConfig, entryConfig, dtsConfig>>)

\* composeLibRsbuildConfig(config, configPath) on the manifest and the files
\* of the project
composeLibRsbuildConfig(config, pkgJson, fs) ==
  LET sync == syncFragments(config, pkgJson)
      entryConfig == composeEntryConfig(entriesOf(config),
                                        Get(config, <<"bundle">>, "undefined"), fs, Root)
  IN IF sync.status = "thrown" THEN sync
     ELSE IF entryConfig.status = "thrown" THEN entryConfig
     ELSE Returned(mergeFragments(sync.value, entryConfig.value,
                                  composeDtsConfig(config, sync.value.dtsExtension)))

\* userConfig.source.entry = {}; delete userConfig.output.externals
resetUserConfig(userConfig) ==
  [path \in (DOMAIN userConfig \ {Externals}) \cup {Entry} |->
     IF path = Entry THEN <<>> ELSE userConfig[path]]

\* config: mergeRsbuildConfig(internalRsbuildConfig, libRsbuildConfig,
\*                            omitDeep(userConfig, [...]))
finalConfig(libRsbuildConfig, userConfig) ==
  mergeRsbuildConfig(<<createInternalRsbuildConfig, libRsbuildConfig,
                       omitDeep(resetUserConfig(userConfig), OmittedKeys)>>)

\* the callback of libConfigsArray.map for one library unit
composeUnit(sharedRsbuildConfig, libConfig, pkgJson, fs) ==
  LET userConfig == merge(sharedRsbuildConfig, libConfig)
      libRsbuildConfig == composeLibRsbuildConfig(userConfig, pkgJson, fs)
  IN IF libRsbuildConfig.status = "thrown" THEN libRsbuildConfig
     ELSE Returned([format |-> Get(libConfig, <<"format">>, "undefined"),
                    config |-> finalConfig(libRsbuildConfig.value, userConfig)])

-----------------------------------------------------------------------------
(* One library unit composed on its own *)

\* a field that is absent or holds one of the values
Optional(path, values) == {EmptyConfig} \cup {Field(path, v) : v \in values}

Formats == {"esm", "cjs", "umd"}
\* a format and a target outside the enumerations, as a configuration file
\* without type checking may hold
FormatValues == Formats \cup {"iife"}
TargetValues == {"web", "node", "neutral", "browser"}

UserFilenameJs == <<"[name].[contenthash:8].js">>
MinifyComments == <<"output", "minify", "jsOptions", "minimizerOptions", "format", "comments">>

SrcGlob == [shape |-> "string", patterns |-> << <<"src", "**", "*.ts">> >>]
IndexEntry == << [key |-> <<"index">>, value |-> SrcGlob] >>

\* bundle and source.entry of a unit
SourceChoices ==
  { EmptyConfig,
    Field(Entry, IndexEntry),
    Field(<<"bundle">>, "false") @@ Field(Entry, IndexEntry) }

FsChoices == { {}, {<<"src", "a", "x.ts">>, <<"src", "z.ts">>} }

LibConfigs ==
  { Field(<<"format">>, f) @@ ae @@ fn @@ tg @@ sx @@ src @@ ex @@ md @@ mc @@ et :
      f \in FormatValues,
      ae \in Optional(<<"autoExtension">>, {"false"}),
      fn \in Optional(FilenameJs, {UserFilenameJs}),
      tg \in Optional(<<"output", "target">>, TargetValues),
      sx \in Optional(<<"output", "syntax">>, {"es2015"}),
      src \in SourceChoices,
      ex \in Optional(Externals, {[shape |-> "object", keys |-> << <<"a">> >>]}),
      md \in Optional(<<"mode">>, {"development"}),
      mc \in Optional(MinifyComments, {"some"}),
      et \in Optional(ExternalsType, {"module"}) }

SharedConfigs ==
  { md @@ dp : md \in Optional(<<"mode">>, {"none"}),
               dp \in Optional(<<"output", "distPath", "root">>, {"./out"}) }

UnitPkgJsons ==
  {NoPkgJson}
    \cup {[readable |-> TRUE, type |-> ty,
           groups |-> [t \in {"dependencies"} |-> << <<"a">>, <<"b">> >>]] :
            ty \in {"commonjs", "module", "absent"}}

InitUnit ==
  /\ options \in [shared : SharedConfigs, lib : LibConfigs,
                  pkgJson : UnitPkgJsons, fs : FsChoices]
  /\ ret = Pending
  /\ logs = <<>>
  /\ resolved = NoResolution
  /\ PipelineIdle

\* the whole callback of libConfigsArray.map for the unit
ComposeOneUnit ==
  /\ ret = Pending
  /\ "lib" \in DOMAIN options
  /\ ret' = composeUnit(options.shared, options.lib, options.pkgJson, options.fs)
  /\ logs' = logs \o syncWarns(merge(options.shared, options.lib), options.pkgJson)
  /\ UNCHANGED <<options, resolved>>
  /\ UNCHANGED pipeVars

NextUnit == ComposeOneUnit

SpecUnit == InitUnit /\ [][NextUnit]_vars

\* the three layers of the unit under composition
UserLayer == merge(options.shared, options.lib)
ComputedLayer == composeLibRsbuildConfig(UserLayer, options.pkgJson, options.fs).value
BaselineLayer == createInternalRsbuildConfig

\* the options of a library unit that configure the composition itself and are
\* no fields of the composed configuration
LibOnlyPaths ==
  {<<"format">>, <<"bundle">>, <<"autoExtension">>, <<"autoExternal">>, <<"dts">>,
   <<"output", "syntax">>}

\* the fields the precedence is claimed for
PrecedencePaths ==
  (DOMAIN UserLayer \cup DOMAIN ComputedLayer \cup DOMAIN BaselineLayer
     \cup DOMAIN ret.value.config) \ ({Entry, Externals} \cup LibOnlyPaths)

FollowsPrecedence(path) ==
  IF Has(UserLayer, path)
  THEN Has(ret.value.config, path) /\ ret.value.config[path] = UserLayer[path]
  ELSE IF Has(ComputedLayer, path)
  THEN Has(ret.value.config, path) /\ ret.value.config[path] = ComputedLayer[path]
  ELSE IF Has(BaselineLayer, path)
  THEN Has(ret.value.config, path) /\ ret.value.config[path] = BaselineLayer[path]
  ELSE ~Has(ret.value.config, path)

\* C2: every field of the composed configuration other than the entry mapping
\* and the externals list holds the user's value if the user sets it, else
\* the computed fragments' value if they set it, else the baseline's.
C2_UserOverComputedOverBaseline ==
  ret.status = "returned" => \A path \in PrecedencePaths : FollowsPrecedence(path)

\* The precedence does hold for every field none of whose keys is one of the
\* names omitDeep strips from the user's configuration.
PrecedenceOutsideOmittedKeys ==
  ret.status = "returned" =>
    \A path \in PrecedencePaths :
      (\A i \in 1..Len(path) : path[i] \notin OmittedKeys) => FollowsPrecedence(path)

\* the extension table: .mjs for esm in a commonjs package, .cjs for cjs in a
\* module package, .js otherwise
TableExtension(format, type, autoExtension) ==
  CASE autoExtension /\ format = "esm" /\ type = "commonjs" -> ".mjs"
    [] autoExtension /\ format = "cjs" /\ type = "module" -> ".cjs"
    [] OTHER -> ".js"

UnitAutoExtension == Get(UserLayer, <<"autoExtension">>, "true") = "true"

EffectiveTarget == Get(UserLayer, <<"output", "target">>, "web")

\* the static table of the default lists, keyed by the platform target
DefaultBrowserslist(target) ==
  CASE target = "web" -> LastWebVersions
    [] target = "node" -> LastNodeVersions
    [] target = "neutral" -> LastNodeVersions \o LastWebVersions

\* the engine target of a platform target
EngineTarget(target) ==
  CASE target = "web" -> "web"
    [] target = "node" -> "node"
    [] target = "neutral" -> "web,node"

NoSyntax == ~Has(UserLayer, <<"output", "syntax">>)

\* C12: without a syntax descriptor the composed output.overrideBrowserslist is
\* the default list of the unit's effective target, an unspecified target
\* being web: the web list for web, the node list for node, both for neutral;
\* the engine target set by the target policy is that of the same target.
C12_DefaultListByEffectiveTarget ==
  (ret.status = "returned" /\ NoSyntax) =>
    /\ ret.value.config[OverrideBrowserslist] = DefaultBrowserslist(EffectiveTarget)
    /\ ret.value.config[RspackTarget] = EngineTarget(EffectiveTarget)

\* The two policies do agree whenever the unit names its target.
DefaultListBySpecifiedTarget ==
  (ret.status = "returned" /\ NoSyntax /\ Has(UserLayer, <<"output", "target">>)) =>
    /\ ret.value.config[OverrideBrowserslist] = DefaultBrowserslist(EffectiveTarget)
    /\ ret.value.config[RspackTarget] = EngineTarget(EffectiveTarget)

-----------------------------------------------------------------------------
(* The externals fragment of a format and its interception step *)

MaxLogs == 2

\* composeModuleImportWarn(request): the text with the request pasted in
composeModuleImportWarn(request) ==
  [text |-> "The externalized commonjs request ${request} will use \"module\" external type in ESM format. If you want to specify other external type, considering set the request and type with \"output.externals\".",
   interpolated |-> <<request>>]

\* callback() and callback(null, result)
CallbackNothing == [externalize |-> FALSE]

moduleImportWarnSilent(data) == [warns |-> <<>>, callback |-> CallbackNothing]

\* ({ request, dependencyType }, callback) => { if (dependencyType ===
\* 'commonjs') logger.warn(...); callback(); }
moduleImportWarn(data) ==
  [warns |-> IF data.dependencyType = "commonjs"
             THEN <<composeModuleImportWarn(data.request)>>
             ELSE <<>>,
   callback |-> CallbackNothing]

RequestPool == DepPool \cup {<<"b">>}
DependencyTypes == {"commonjs", "esm"}

InitExternals ==
  /\ options \in [format : FormatValues, externals : UserExternalsValues(DepPool)]
  /\ ret = Pending
  /\ logs = <<>>
  /\ resolved = NoResolution
  /\ PipelineIdle

CallComposeExternalsConfig ==
  /\ ret = Pending
  /\ "externals" \in DOMAIN options
  /\ ret' = composeExternalsConfig(options.format, options.externals)
  /\ UNCHANGED <<options, logs, resolved>>
  /\ UNCHANGED pipeVars

\* the engine hands a request of the build to the interception step
InvokeInterception ==
  /\ ret.status = "returned"
  /\ Len(logs) < MaxLogs
  /\ Has(ret.value, Externals)
  /\ Includes(castArray(ret.value[Externals]), ModuleImportWarnFn)
  /\ \E request \in RequestPool, dependencyType \in DependencyTypes :
       LET data == [request |-> request, dependencyType |-> dependencyType]
           out == moduleImportWarn(data)
       IN /\ logs' = logs \o out.warns
          /\ resolved' = [decided |-> TRUE, data |-> data, callback |-> out.callback,
                          logged |-> Len(out.warns)]
  /\ UNCHANGED <<options, ret>>
  /\ UNCHANGED pipeVars

NextExternals == CallComposeExternalsConfig \/ InvokeInterception

SpecExternals == InitExternals /\ [][NextExternals]_vars

\* what the claim says of the cjs and umd fragments, and of the ESM list
PassThrough(type) ==
  /\ ret.value[ExternalsType] = type
  /\ IF options.externals.shape = "undefined" THEN ~Has(ret.value, Externals)
     ELSE ret.value[Externals] = options.externals
  /\ ~Includes(castArray(Get(ret.value, Externals, Undefined)), ModuleImportWarnFn)

WarnedLast ==
  /\ Len(logs) > 0
  /\ logs[Len(logs)] = composeModuleImportWarn(resolved.data.request)

\* C10 as stated: in ESM the interception step warns about every commonjs
\* request and rewrites it to the "module" external type; cjs and umd install
\* no interception step and pass the user's externals through.
C10_WarnsAndRewrites ==
  /\ (ret.status = "returned" /\ options.format = "cjs") => PassThrough("commonjs")
  /\ (ret.status = "returned" /\ options.format = "umd") => PassThrough("umd")
  /\ (resolved.decided /\ resolved.data.dependencyType = "commonjs") =>
       /\ WarnedLast
       /\ resolved.callback.externalize
       /\ resolved.callback.result = <<"module", resolved.data.request>>

\* C10 amended: in ESM the interception step is the first rule of the list, it
\* warns about every request whose dependency type is commonjs and about no
\* other, and it calls back without a result: it rewrites nothing, the
\* following rules decide and the fragment sets externalsType "module-import".
\* cjs and umd install no interception step and pass the user's externals
\* through with externalsType commonjs and umd.
C10_WarnsAndDefers ==
  /\ (ret.status = "returned" /\ options.format = "cjs") => PassThrough("commonjs")
  /\ (ret.status = "returned" /\ options.format = "umd") => PassThrough("umd")
  /\ (ret.status = "returned" /\ options.format = "esm") =>
       /\ ret.value[ExternalsType] = "module-import"
       /\ ret.value[Externals] =
            ArrayOf(<<ModuleImportWarnFn>> \o castArray(options.externals))
  /\ resolved.decided =>
       /\ options.format = "esm"
       /\ resolved.callback = CallbackNothing
       /\ IF resolved.data.dependencyType = "commonjs"
          THEN resolved.logged = 1 /\ WarnedLast
          ELSE resolved.logged = 0

C10_Witness ==
  /\ resolved.decided
  /\ options.format = "esm"
  /\ resolved.data.dependencyType = "commonjs"
  /\ logs = <<composeModuleImportWarn(resolved.data.request)>>
  /\ resolved.callback = CallbackNothing

\* the engine externalizes a request by an item of the externals list: a
\* string that is the request, an object with the request as a key, a regular
\* expression that matches it; the interception step calls back with nothing
ItemExternalizes(item, request) ==
  CASE item.kind = "string" -> item.name = request
    [] item.kind = "object" -> Includes(item.keys, request)
    [] item.kind = "regexp" -> RegExpTest(item.source, request)
    [] OTHER -> FALSE

ExternalizedBySomeRule(request) ==
  \E i \in 1..Len(castArray(ret.value[Externals])) :
    ItemExternalizes(castArray(ret.value[Externals])[i], request)

\* C15: in ESM format the warning is emitted only for a commonjs-typed request
\* that some rule of the composed externals list externalizes; a commonjs-typed
\* request that no rule matches, and a request of another type, cause none.
C15_WarnsOnlyWhenExternalized ==
  (resolved.decided /\ resolved.logged > 0) =>
    /\ resolved.data.dependencyType = "commonjs"
    /\ ExternalizedBySomeRule(resolved.data.request)

\* A request that is not commonjs-typed never causes the warning.
WarnsOnlyForCommonjs ==
  (resolved.decided /\ resolved.logged > 0) => resolved.data.dependencyType = "commonjs"

-----------------------------------------------------------------------------
(* The externals callback of the bundleless mode *)

\* the index of the last "." of s, 0 when it holds none
lastDot(s) ==
  IF \E i \in 1..Len(s) : s[i] = "."
  THEN CHOOSE i \in 1..Len(s) : s[i] = "." /\ \A j \in (i + 1)..Len(s) : s[j] # "."
  ELSE 0

\* the last portion of a path: trailing "/" dropped, then what follows the
\* last "/" left
lastPortion(path) ==
  IF \A i \in 1..Len(path) : path[i] = "/" THEN <<>>
  ELSE LET end == CHOOSE i \in 1..Len(path) :
                    path[i] # "/" /\ \A j \in (i + 1)..Len(path) : path[j] = "/"
           startPart == IF \E i \in 1..end : path[i] = "/"
                        THEN 1 + (CHOOSE i \in 1..end :
                                    path[i] = "/" /\ \A j \in (i + 1)..end : path[j] # "/")
                        ELSE 1
       IN SubSeq(path, startPart, end)

\* extname of node:path (posix): from the last "." of the last portion to its
\* end; empty when the portion holds no ".", when its only "." is its first
\* character, and when the portion is ".."
extname(path) ==
  LET base == lastPortion(path)
      startDot == lastDot(base)
  IN IF startDot = 0 \/ startDot = 1 \/ base = <<".", ".">> THEN <<>>
     ELSE SubSeq(base, startDot, Len(base))

\* request.replace(/\.[^.]+$/, jsExtension): the match is the last "." with
\* the characters after it, and there must be one at least
replaceExtension(request, jsExtension) ==
  LET startDot == lastDot(request)
  IN IF startDot # 0 /\ startDot < Len(request)
     THEN SubSeq(request, 1, startDot - 1) \o <<jsExtension>>
     ELSE request

CallbackResult(result) == [externalize |-> TRUE, result |-> result]

\* (data, callback) => { if (data.contextInfo.issuer) { ...; return
\* callback(null, request) } callback() }
bundlelessExternal(data, jsExtension) ==
  IF data.issuer # <<>>
  THEN CallbackResult(
         IF data.request[1] = "."
         THEN IF extname(data.request) # <<>>
              THEN replaceExtension(data.request, jsExtension)
              ELSE data.request \o <<jsExtension>>
         ELSE data.request)
  ELSE CallbackNothing

JsExtensions == {".js", ".mjs", ".cjs"}
Issuers == {<<>>, <<"a">>}

InitBundle ==
  /\ options \in [jsExtension : JsExtensions, bundle : BundleValues]
  /\ ret = Pending
  /\ logs = <<>>
  /\ resolved = NoResolution
  /\ PipelineIdle

CallComposeBundleConfig ==
  /\ ret = Pending
  /\ DOMAIN options = {"jsExtension", "bundle"}
  /\ ret' = Returned(composeBundleConfig(options.jsExtension, options.bundle))
  /\ UNCHANGED <<options, logs, resolved>>
  /\ UNCHANGED pipeVars

\* the engine hands a request of the build to the callback of the fragment
InvokeBundleless ==
  /\ ret.status = "returned"
  /\ ~resolved.decided
  /\ DOMAIN options = {"jsExtension", "bundle"}
  /\ Has(ret.value, Externals)
  /\ \E request \in Requests, issuer \in Issuers :
       LET data == [request |-> request, issuer |-> issuer]
           fn == ret.value[Externals].items[1]
       IN resolved' = [decided |-> TRUE, data |-> data,
                       callback |-> bundlelessExternal(data, fn.jsExtension)]
  /\ UNCHANGED <<options, ret, logs>>
  /\ UNCHANGED pipeVars

NextBundle == CallComposeBundleConfig \/ InvokeBundleless

SpecBundle == InitBundle /\ [][NextBundle]_vars

EndsWith(request, jsExtension) ==
  Len(request) > 0 /\ request[Len(request)] = jsExtension

\* what the callback is to do with a request other than the rewrite of a
\* relative one
BundlelessDecision ==
  /\ (ret.status = "returned" /\ options.bundle # "false") => ret.value = EmptyConfig
  /\ (ret.status = "returned" /\ options.bundle = "false") =>
       ret.value = Field(Externals, ArrayOf(<<BundlelessFn(options.jsExtension)>>))
  /\ resolved.decided =>
       IF resolved.data.issuer = <<>> THEN resolved.callback = CallbackNothing
       ELSE /\ resolved.callback.externalize
            /\ resolved.data.request[1] # "." =>
                 resolved.callback.result = resolved.data.request

\* C14: in bundleless mode the callback externalizes no request with an empty
\* issuer and every request with an issuer; a relative request (first
\* character ".") is externalized with the computed JS extension at its end,
\* a non-relative one unchanged; in bundle mode the fragment has no externals.
C14_RelativeRequestGetsExtension ==
  /\ BundlelessDecision
  /\ (resolved.decided /\ resolved.data.issuer # <<>> /\ resolved.data.request[1] = ".") =>
       EndsWith(resolved.callback.result, options.jsExtension)

\* The rewrite does end with the extension for every relative request that
\* does not itself end with ".".
RelativeRequestWithoutTrailingDot ==
  /\ BundlelessDecision
  /\ (/\ resolved.decided /\ resolved.data.issuer # <<>>
      /\ resolved.data.request[1] = "."
      /\ resolved.data.request[Len(resolved.data.request)] # ".") =>
       EndsWith(resolved.callback.result, options.jsExtension)

-----------------------------------------------------------------------------
(* composeCreateRsbuildConfig and initRsbuild: the library units composed   *)
(* concurrently, then the environments assembled                             *)

MaxLib == 3

Units == 1..Len(options.lib)

BadTarget == Field(<<"format">>, "cjs") @@ Field(<<"output", "target">>, "browser")
Bundleless ==
  Field(<<"format">>, "esm") @@ Field(<<"bundle">>, "false") @@ Field(Entry, IndexEntry)

\* the library units of the model: each format bundled, a bundleless unit
\* whose glob may match nothing, an unsupported format, an unsupported target
LibPool ==
  {Field(<<"format">>, f) : f \in FormatValues} \cup {Bundleless, BadTarget}

ModulePkgJson ==
  [readable |-> TRUE, type |-> "module",
   groups |-> [t \in {"dependencies"} |-> << <<"a">> >>]]

Replace(seq, i, v) == [seq EXCEPT ![i] = v]

\* const libConfigPromises = libConfigsArray.map(async (libConfig) => ...):
\* map calls the callbacks in declaration order, each runs to its first await
Started == \A j \in Units : pc[j] # "start"

InitPipeline ==
  /\ options \in {o \in [shared : {EmptyConfig}, lib : SeqsUpTo(LibPool, MaxLib),
                          hasLib : BOOLEAN, pkgJson : {ModulePkgJson}, fs : FsChoices] :
                     ~o.hasLib => o.lib = <<>>}
  /\ ret = Pending
  /\ logs = <<>>
  /\ resolved = NoResolution
  /\ pc = [i \in Units |-> "start"]
  /\ work = [i \in Units |-> [stage |-> "none"]]
  /\ results = [i \in Units |-> Pending]
  /\ finished = <<>>
  /\ initPc = "awaiting"
  /\ environments = <<>>
  /\ rsbuild = NotCreated

\* `Expect lib field to be an array, but got ${libConfigsArray}.`
ExpectLib == [text |-> "Expect lib field to be an array, but got ",
              interpolated |-> <<<<"undefined">>>>]

\* if (!libConfigsArray) throw: only an absent lib is falsy, [] is not; the
\* rejection of composeCreateRsbuildConfig is thrown by the await of initRsbuild
RejectMissingLib ==
  /\ initPc = "awaiting"
  /\ ~options.hasLib
  /\ initPc' = "rejected"
  /\ ret' = Thrown(ExpectLib)
  /\ UNCHANGED <<options, logs, resolved, pc, work, results, finished,
                 environments, rsbuild>>

\* the callback of unit i up to the first await of composeLibRsbuildConfig
StartUnit(i) ==
  /\ initPc # "idle"
  /\ pc[i] = "start"
  /\ \A j \in 1..(i - 1) : pc[j] # "start"
  /\ LET userConfig == merge(options.shared, options.lib[i])
         sync == syncFragments(userConfig, options.pkgJson)
     IN /\ logs' = logs \o syncWarns(userConfig, options.pkgJson)
        /\ IF sync.status = "thrown"
           THEN /\ pc' = Replace(pc, i, "failed")
                /\ results' = Replace(results, i, sync)
                /\ finished' = Append(finished, i)
                /\ UNCHANGED work
           ELSE /\ pc' = Replace(pc, i, "entry")
                /\ work' = Replace(work, i, [stage |-> "sync", userConfig |-> userConfig,
                                             fragments |-> sync.value])
                /\ UNCHANGED <<results, finished>>
  /\ UNCHANGED <<options, ret, resolved, initPc, environments, rsbuild>>

\* await composeEntryConfig(...): the globs of unit i have been expanded
ResolveEntry(i) ==
  /\ Started
  /\ pc[i] = "entry"
  /\ LET userConfig == work[i].userConfig
         entryConfig == composeEntryConfig(entriesOf(userConfig),
                          Get(userConfig, <<"bundle">>, "undefined"), options.fs, Root)
     IN IF entryConfig.status = "thrown"
        THEN /\ pc' = Replace(pc, i, "failed")
             /\ results' = Replace(results, i, entryConfig)
             /\ finished' = Append(finished, i)
             /\ UNCHANGED work
        ELSE /\ pc' = Replace(pc, i, "dts")
             /\ work' = Replace(work, i, [stage |-> "entry", userConfig |-> userConfig,
                                          fragments |-> work[i].fragments,
                                          entryConfig |-> entryConfig.value])
             /\ UNCHANGED <<results, finished>>
  /\ UNCHANGED <<options, ret, logs, resolved, initPc, environments, rsbuild>>

\* await composeDtsConfig(...), then the merge of the fragments of unit i
ResolveDts(i) ==
  /\ Started
  /\ pc[i] = "dts"
  /\ pc' = Replace(pc, i, "reset")
  /\ work' = Replace(work, i,
       [stage |-> "merged", userConfig |-> work[i].userConfig,
        libRsbuildConfig |->
          mergeFragments(work[i].fragments, work[i].entryConfig,
            composeDtsConfig(work[i].userConfig, work[i].fragments.dtsExtension))])
  /\ UNCHANGED <<options, ret, logs, resolved, results, finished, initPc,
                 environments, rsbuild>>

\* after await composeLibRsbuildConfig: the reset of the user configuration
\* and the final merge of unit i
FinishUnit(i) ==
  /\ Started
  /\ pc[i] = "reset"
  /\ pc' = Replace(pc, i, "done")
  /\ results' = Replace(results, i,
       Returned([format |-> Get(options.lib[i], <<"format">>, "undefined"),
                 config |-> finalConfig(work[i].libRsbuildConfig, work[i].userConfig)]))
  /\ finished' = Append(finished, i)
  /\ work' = Replace(work, i, [stage |-> "returned"])
  /\ UNCHANGED <<options, ret, logs, resolved, initPc, environments, rsbuild>>

promiseAllSettled(promises, order) ==
  IF \E i \in 1..Len(promises) : promises[i].status = "pending" THEN Pending
  ELSE Returned(SelectSeq([i \in 1..Len(promises) |->
                             IF promises[i].status = "returned" THEN promises[i].value
                             ELSE [format |-> "undefined"]],
                          LAMBDA r : r.format # "undefined"))

\* Promise.all(promises): rejected with the first rejection in time, else
\* fulfilled with the values in the order of the promises once all are
promiseAll(promises, order) ==
  IF \E k \in 1..Len(order) : promises[order[k]].status = "thrown"
  THEN promises[order[CHOOSE k \in 1..Len(order) :
                        /\ promises[order[k]].status = "thrown"
                        /\ \A h \in 1..(k - 1) : promises[order[h]].status # "thrown"]]
  ELSE IF \E i \in 1..Len(promises) : promises[i].status = "pending" THEN Pending
  ELSE Returned([i \in 1..Len(promises) |-> promises[i].value])

\* the number of composed units of the format: the reduce into formatCount
formatCount(rsbuildConfigObject, format) ==
  Cardinality({i \in 1..Len(rsbuildConfigObject) : rsbuildConfigObject[i].format = format})

envKeyBareFirst(format, currentFormatCount, currentFormatIndex) ==
  IF currentFormatIndex = 0 THEN <<format>>
  ELSE <<format, ToString(currentFormatIndex)>>

\* currentFormatCount === 1 ? format : `${format}${currentFormatIndex}`
envKey(format, currentFormatCount, currentFormatIndex) ==
  IF currentFormatCount = 1 THEN <<format>>
  ELSE <<format, ToString(currentFormatIndex)>>

RECURSIVE assemble(_, _, _, _)
\* for (const { format, config } of rsbuildConfigObject) from the i-th on
assemble(rsbuildConfigObject, i, formatIndex, envs) ==
  IF i > Len(rsbuildConfigObject) THEN envs
  ELSE LET format == rsbuildConfigObject[i].format
           key == envKey(format, formatCount(rsbuildConfigObject, format),
                         formatIndex[format])
       IN assemble(rsbuildConfigObject, i + 1,
                   [formatIndex EXCEPT ![format] = @ + 1],
                   [k \in DOMAIN envs \cup {key} |->
                      IF k = key THEN rsbuildConfigObject[i].config ELSE envs[k]])

\* initRsbuild after the await: the environments, then createRsbuild
AssembleEnvironments ==
  /\ initPc = "awaiting"
  /\ options.hasLib
  /\ Started
  /\ promiseAll(results, finished).status = "returned"
  /\ LET envs == assemble(promiseAll(results, finished).value, 1,
                          [f \in Formats |-> 0], <<>>)
     IN /\ environments' = envs
        /\ rsbuild' = [created |-> TRUE, rsbuildConfig |-> [environments |-> envs]]
  /\ initPc' = "created"
  /\ UNCHANGED <<options, ret, logs, resolved, pc, work, results, finished>>

\* the await of initRsbuild throws what Promise.all rejected with
RejectInit ==
  /\ initPc = "awaiting"
  /\ Started
  /\ promiseAll(results, finished).status = "thrown"
  /\ initPc' = "rejected"
  /\ ret' = promiseAll(results, finished)
  /\ UNCHANGED <<options, logs, resolved, pc, work, results, finished,
                 environments, rsbuild>>

Next ==
  \/ \E i \in Units : StartUnit(i)
  \/ \E i \in Units : ResolveEntry(i)
  \/ \E i \in Units : ResolveDts(i)
  \/ \E i \in Units : FinishUnit(i)
  \/ AssembleEnvironments
  \/ RejectInit
  \/ RejectMissingLib

Init == InitPipeline

Spec == Init /\ [][Next]_vars

\* the declared format of unit i, its occurrences before i and in the whole lib
DeclaredFormat(i) == options.lib[i][<<"format">>]
OccurrencesBefore(i) ==
  Cardinality({j \in 1..(i - 1) : DeclaredFormat(j) = DeclaredFormat(i)})
Occurrences(i) == Cardinality({j \in Units : DeclaredFormat(j) = DeclaredFormat(i)})

DeclaredKey(i) ==
  IF Occurrences(i) = 1 THEN <<DeclaredFormat(i)>>
  ELSE <<DeclaredFormat(i), ToString(OccurrencesBefore(i))>>

\* C1: each unit's environment key is its bare format name when the format is
\* declared once, else the format name followed by the unit's zero-based
\* occurrence index among the units of that format in declaration order; the
\* key holds the configuration of that unit whatever the order units finish in.
C1_KeysFollowDeclarationOrder ==
  rsbuild.created =>
    /\ DOMAIN environments = {DeclaredKey(i) : i \in Units}
    /\ \A i \in Units : environments[DeclaredKey(i)] = results[i].value.config
    /\ rsbuild.rsbuildConfig.environments = environments

\* [esm, esm, cjs], the second esm unit finishing before the first
C1_Witness ==
  /\ rsbuild.created
  /\ Len(options.lib) = 3
  /\ DeclaredFormat(1) = "esm" /\ DeclaredFormat(2) = "esm" /\ DeclaredFormat(3) = "cjs"
  /\ options.lib[1] # options.lib[2]
  /\ finished[1] = 2
  /\ DOMAIN environments = {<<"esm", "0">>, <<"esm", "1">>, <<"cjs">>}
  /\ environments[<<"esm", "1">>] = results[2].value.config

\* C3: composition is all-or-nothing: once a unit has failed, initRsbuild
\* builds no environment and hands nothing to createRsbuild, it can only
\* throw; the environments are assembled only when every unit has resolved.
C3_AllOrNothing ==
  /\ (\E i \in Units : pc[i] = "failed") =>
       /\ initPc \in {"awaiting", "rejected"}
       /\ environments = <<>>
       /\ rsbuild = NotCreated
  /\ (initPc = "rejected" /\ options.hasLib) =>
       \E i \in Units : pc[i] = "failed" /\ ret = results[i]
  /\ initPc = "created" =>
       /\ \A i \in Units : pc[i] = "done" /\ results[i].status = "returned"
       /\ Cardinality(DOMAIN environments) = Len(options.lib)

C3_Witness ==
  /\ initPc = "rejected"
  /\ \E i, j \in Units : pc[i] = "failed" /\ pc[j] = "done"
  /\ environments = <<>>
  /\ rsbuild = NotCreated

\* Whatever the interleaving of the units at their awaits, a settled unit holds
\* what the callback yields for that unit composed alone; the steps of the
\* units never write the root configuration. Each unit works on the userConfig
\* of its own callback invocation; whether that object shares sub-objects with
\* the root configuration is decided inside mergeRsbuildConfig.
UnitsComposeAsAlone ==
  \A i \in Units :
    results[i].status # "pending" =>
      results[i] = composeUnit(options.shared, options.lib[i], options.pkgJson, options.fs)

\* C11: composeCreateRsbuildConfig produces a result only when lib is a
\* non-empty sequence: with lib absent it throws the configuration error, and
\* with lib empty it is rejected as well, so that initRsbuild never hands an
\* empty environment map to createRsbuild.
C11_NonEmptyLibRequired ==
  /\ (initPc # "awaiting" /\ ~options.hasLib) =>
       initPc = "rejected" /\ ret = Thrown(ExpectLib) /\ rsbuild = NotCreated
  /\ (initPc # "awaiting" /\ options.hasLib /\ Len(options.lib) = 0) =>
       initPc = "rejected" /\ rsbuild = NotCreated

====
